---- MODULE Spec2Model ----
(***************************************************************************)
(* Model of the Monte Carlo price-path simulator                           *)
(* (monte_carlo_simulator.py: run_monte_carlo_simulation) and of the       *)
(* statistical analyzer (analyzer.py: analyze_simulation_results), driven  *)
(* as main.py drives them: simulate, then analyse the last row.            *)
(*                                                                         *)
(* Numbers.  The code computes in float64.  The model computes in exact    *)
(* extended rationals <<n, d>>: d > 0 is the finite value n/d in lowest    *)
(* terms, <<0, 0>> is NaN and <<1, 0>>, <<-1, 0>> are +inf and -inf, with  *)
(* the IEEE rules for 0/0, x/0, inf - inf and comparisons with NaN.        *)
(* Rounding error is not modelled.  drift and volatility are taken in      *)
(* units of ln 2, and the normal draws are integers, so that               *)
(* np.exp(drift + volatility * z) is the exact rational 2^(drift + vol*z). *)
(***************************************************************************)
EXTENDS Integers, Sequences, FiniteSets, TLC

VARIABLES pc, args, z, simulations, analysis, error

vars == <<pc, args, z, simulations, analysis, error>>

(* ------------------------------ bounds -------------------------------- *)

\* largest forecast_period (rows) of a simulator call
MaxSteps == 4
\* largest num_simulations (columns) of a simulator call
MaxPaths == 3
\* largest number of normal draws (rows times columns) of a simulator call
MaxDraws == 8
\* largest start_price of a call
MaxStartPrice == 2
\* longest final-price vector handed straight to the analyzer
MaxLen == 4
\* largest final price of a vector handed straight to the analyzer
MaxPrice == 3
\* length of the long final-price vectors: from 21 prices on, the 5% rank
\* (n - 1) * 0.05 reaches the second order statistic
LongLen == 21

\* values a standard-normal draw takes in the model
Draws == {-1, 1}
\* drift and volatility values of a call (volatility < 0 is an invalid input)
Drifts == {-1, 0, 1}
Volatilities == {-1, 0, 1}

(* ------------------------- float64 arithmetic ------------------------- *)

Abs(n) == IF n < 0 THEN -n ELSE n

Sgn(n) == IF n < 0 THEN -1 ELSE IF n > 0 THEN 1 ELSE 0

RECURSIVE GCD(_, _)
GCD(a, b) == IF b = 0 THEN a ELSE GCD(b, a % b)

\* n/d in lowest terms with a positive denominator; n/0 is NaN or +-inf
Norm(n, d) ==
    IF d = 0 THEN <<Sgn(n), 0>>
    ELSE LET g == GCD(Abs(n), Abs(d))
         IN  <<(Sgn(d) * n) \div g, Abs(d) \div g>>

Rat(n) == <<n, 1>>

NaN == <<0, 0>>

IsNaN(a) == a = NaN

Add(a, b) ==
    IF a[2] = 0 /\ b[2] = 0
    THEN IF a = b THEN a ELSE NaN
    ELSE Norm(a[1] * b[2] + b[1] * a[2], a[2] * b[2])

Neg(a) == <<-a[1], a[2]>>

Sub(a, b) == Add(a, Neg(b))

Mul(a, b) == Norm(a[1] * b[1], a[2] * b[2])

Div(a, b) ==
    IF b[2] = 0 THEN (IF a[2] = 0 \/ b[1] = 0 THEN NaN ELSE <<0, 1>>)
    ELSE IF b[1] = 0 THEN <<Sgn(a[1]), 0>>
    ELSE Norm(a[1] * b[2] * Sgn(b[1]), a[2] * Abs(b[1]))

\* a <= b, a < b as float64 compares: FALSE when either side is NaN
Leq(a, b) ==
    /\ ~IsNaN(a) /\ ~IsNaN(b)
    /\ IF a[2] = 0 /\ b[2] = 0 THEN a[1] <= b[1]
       ELSE a[1] * b[2] <= b[1] * a[2]

Lt(a, b) == Leq(a, b) /\ a # b

RECURSIVE Pow2(_)
Pow2(k) == IF k = 0 THEN 1 ELSE 2 * Pow2(k - 1)

\* np.exp(x) for x an integer multiple of ln 2
Exp(x) == IF x >= 0 THEN <<Pow2(x), 1>> ELSE <<1, Pow2(-x)>>

(* ------------- monte_carlo_simulator.py: the simulator ---------------- *)

\* np.random.normal(0, 1, (forecast_period, num_simulations)): every matrix of
\* that shape the random source can deliver
normal(forecast_period, num_simulations) ==
    [1..forecast_period -> [1..num_simulations -> Draws]]

daily_returns_volatility_dropped(drift, volatility, draws) ==
    [t \in 1..Len(draws) |->
        [p \in 1..Len(draws[t]) |-> Exp(drift + draws[t][p])]]

\* line 19: np.exp(drift + volatility * draws), element by element
daily_returns(drift, volatility, draws) ==
    [t \in 1..Len(draws) |->
        [p \in 1..Len(draws[t]) |-> Exp(drift + volatility * draws[t][p])]]

first_row_left_zero(start_price, num_simulations) ==
    [p \in 1..num_simulations |-> Rat(0)]

\* line 23: price_paths[0] = start_price, broadcast over the columns
first_row(start_price, num_simulations) ==
    [p \in 1..num_simulations |-> Rat(start_price)]

next_row_added(prev, factors) ==
    [p \in 1..Len(prev) |-> Add(prev[p], factors[p])]

\* line 25: price_paths[t] = price_paths[t - 1] * daily_returns[t]
next_row(prev, factors) ==
    [p \in 1..Len(prev) |-> Mul(prev[p], factors[p])]

RECURSIVE price_paths_row_shifted(_, _, _)
price_paths_row_shifted(start_price, returns_, t) ==
    IF t = 0 THEN <<first_row(start_price, Len(returns_[1]))>>
    ELSE LET above == price_paths_row_shifted(start_price, returns_, t - 1)
         IN  Append(above, next_row(above[t], returns_[t]))

\* lines 22-25: the rows 0..t of price_paths (rows 1..t+1 here)
RECURSIVE price_paths(_, _, _)
price_paths(start_price, returns_, t) ==
    IF t = 0 THEN <<first_row(start_price, Len(returns_[1]))>>
    ELSE LET above == price_paths(start_price, returns_, t - 1)
         IN  Append(above, next_row(above[t], returns_[t + 1]))

\* the exception the call ends with, "none" when it returns
simulator_error(forecast_period, num_simulations) ==
    IF forecast_period < 0 \/ num_simulations < 0 THEN "ValueError"
    ELSE IF forecast_period = 0 THEN "IndexError"
    ELSE "none"

NoFrame == <<>>

NoAnalysis == [called |-> FALSE]

(* ------------------- analyzer.py: the analyzer ------------------------ *)

RECURSIVE Sum(_)
Sum(xs) == IF xs = <<>> THEN Rat(0) ELSE Add(Head(xs), Sum(Tail(xs)))

NotNaN(x) == ~IsNaN(x)

\* Series.mean(): the NaN entries are skipped; NaN when nothing is left
mean(xs) ==
    LET kept == SelectSeq(xs, NotNaN)
    IN  IF kept = <<>> THEN NaN ELSE Div(Sum(kept), Rat(Len(kept)))

IsTrue(b) == b

\* the mean of a boolean Series: the fraction of True entries; NaN when empty
bool_mean(mask) ==
    IF mask = <<>> THEN NaN ELSE Div(Rat(Len(SelectSeq(mask, IsTrue))), Rat(Len(mask)))

RECURSIVE Insert(_, _)
Insert(x, sorted) ==
    IF sorted = <<>> THEN <<x>>
    ELSE IF Leq(x, Head(sorted)) THEN <<x>> \o sorted
    ELSE <<Head(sorted)>> \o Insert(x, Tail(sorted))

Sort_skipped(xs) == xs

RECURSIVE Sort(_)
Sort(xs) == IF xs = <<>> THEN <<>> ELSE Insert(Head(xs), Sort(Tail(xs)))

Min(a, b) == IF a <= b THEN a ELSE b

\* Series.quantile(q), interpolation "linear": over the sorted non-NaN values v,
\* at the rank h = (n - 1) * q, v[floor h] + (v[floor h + 1] - v[floor h]) * frac h
quantile(xs, q) ==
    LET v  == Sort(SelectSeq(xs, NotNaN))
        n  == Len(v)
        h  == Mul(Rat(n - 1), q)
        lo == h[1] \div h[2]
        a  == v[lo + 1]
        b  == v[Min(lo + 2, n)]
    IN  IF n = 0 THEN NaN
        ELSE Add(a, Mul(Sub(b, a), Sub(h, Rat(lo))))

\* Series.median(): the middle sorted value, or the mean of the two middle ones
median(xs) ==
    LET v == Sort(SelectSeq(xs, NotNaN))
        n == Len(v)
    IN  IF n = 0 THEN NaN
        ELSE IF n % 2 = 1 THEN v[(n + 1) \div 2]
        ELSE Div(Add(v[n \div 2], v[n \div 2 + 1]), Rat(2))

\* line 15: simulations.iloc[-1]
final_prices_of(frame) == frame[Len(frame)]

returns_not_centred(final_prices, start_price) ==
    [i \in 1..Len(final_prices) |-> Div(final_prices[i], Rat(start_price))]

\* line 28: returns = final_prices / start_price - 1
returns_of(final_prices, start_price) ==
    [i \in 1..Len(final_prices) |->
        Sub(Div(final_prices[i], Rat(start_price)), Rat(1))]

tail_strictly_below(returns, var) ==
    LET Below(r) == Lt(r, var) IN SelectSeq(returns, Below)

tail_at_or_above(returns, var) ==
    LET AtOrAbove(r) == Leq(var, r) IN SelectSeq(returns, AtOrAbove)

\* lines 33-34: returns[returns <= var].mean()
tail(returns, var) ==
    LET AtOrBelow(r) == Leq(r, var) IN SelectSeq(returns, AtOrBelow)

cvar(returns, var) == mean(tail(returns, var))

prob_loss_at_or_below(final_prices, start_price) ==
    bool_mean([i \in 1..Len(final_prices) |-> Leq(final_prices[i], Rat(start_price))])

\* line 41: (final_prices < start_price).mean()
prob_loss_of(final_prices, start_price) ==
    bool_mean([i \in 1..Len(final_prices) |-> Lt(final_prices[i], Rat(start_price))])

\* lines 42-44: (final_prices > start_price * 1.1).mean(), with 1.1 given in tenths
prob_increase(final_prices, start_price, tenths) ==
    LET threshold == Mul(Rat(start_price), Norm(tenths, 10))
    IN  bool_mean([i \in 1..Len(final_prices) |-> Lt(threshold, final_prices[i])])

\* lines 15-62, without std_dev_forecast, skewness and kurtosis, which are
\* irrational and which no property below reads
analyze(frame, start_price) ==
    LET final_prices == final_prices_of(frame)
        returns == returns_of(final_prices, start_price)
        var_95 == quantile(returns, Norm(5, 100))
        var_99 == quantile(returns, Norm(1, 100))
    IN  [called |-> TRUE,
         start_price |-> start_price,
         final_prices |-> final_prices,
         returns |-> returns,
         price_predictions |->
            [mean_predicted_price |-> mean(final_prices),
             median_predicted_price |-> median(final_prices),
             percentile_5th |-> quantile(final_prices, Norm(5, 100)),
             percentile_25th |-> quantile(final_prices, Norm(25, 100)),
             percentile_75th |-> quantile(final_prices, Norm(75, 100)),
             percentile_95th |-> quantile(final_prices, Norm(95, 100))],
         risk_metrics |->
            [VaR_95 |-> var_95,
             VaR_99 |-> var_99,
             CVaR_95 |-> cvar(returns, var_95),
             CVaR_99 |-> cvar(returns, var_99),
             prob_loss |-> prob_loss_of(final_prices, start_price),
             prob_increase_10 |-> prob_increase(final_prices, start_price, 11),
             prob_increase_20 |-> prob_increase(final_prices, start_price, 12),
             prob_increase_30 |-> prob_increase(final_prices, start_price, 13)],
         statistical_summary |-> [expected_return |-> mean(returns)]]

(* --------------------------- the program ------------------------------ *)

\* the arguments main.py holds before it calls the simulator: the historical
\* statistics (latest_price, drift, std_dev) and the two sizes
Arguments ==
    {a \in [start_price : -1..MaxStartPrice, drift : Drifts,
            volatility : Volatilities,
            forecast_period : -1..MaxSteps, num_simulations : -1..MaxPaths] :
        a.forecast_period * a.num_simulations <= MaxDraws}

\* the final-price vectors of up to MaxLen finite prices
ShortVectors ==
    UNION {{[i \in 1..n |-> Rat(v[i])] : v \in [1..n -> 0..MaxPrice]} : n \in 0..MaxLen}

\* a short vector followed by copies of the largest price, LongLen prices in all
Padded(v) == [i \in 1..LongLen |-> IF i <= Len(v) THEN v[i] ELSE Rat(MaxPrice)]

\* the frames a caller hands straight to analyze_simulation_results: no row, or
\* one row holding a short vector or a long one
Frames ==
    {<<>>} \cup {<<v>> : v \in ShortVectors} \cup {<<Padded(v)>> : v \in ShortVectors}

\* run_monte_carlo_simulation(start_price, drift, volatility, forecast_period,
\* num_simulations), as main.py line 98 calls it
run_monte_carlo_simulation ==
    /\ pc = "start"
    /\ error' = simulator_error(args.forecast_period, args.num_simulations)
    /\ IF error' = "ValueError"
       THEN z' = <<>> /\ simulations' = NoFrame /\ pc' = "simulator_raised"
       ELSE \E draws \in normal(args.forecast_period, args.num_simulations) :
              /\ z' = draws
              /\ IF error' = "IndexError"
                 THEN simulations' = NoFrame /\ pc' = "simulator_raised"
                 ELSE /\ simulations' =
                           price_paths(args.start_price,
                                       daily_returns(args.drift, args.volatility, draws),
                                       args.forecast_period - 1)
                      /\ pc' = "simulated"
    /\ UNCHANGED <<args, analysis>>

\* analyze_simulation_results(simulations, start_price), as main.py line 109
\* calls it on the simulator's frame, or as any caller does on a frame of its own
analyze_simulation_results ==
    /\ pc \in {"simulated", "frame"}
    /\ IF Len(simulations) = 0
       THEN error' = "IndexError" /\ pc' = "analyzer_raised" /\ UNCHANGED analysis
       ELSE /\ analysis' = analyze(simulations, args.start_price)
            /\ pc' = "analyzed"
            /\ UNCHANGED error
    /\ UNCHANGED <<args, z, simulations>>

\* main.py about to call the simulator
InitMain ==
    /\ pc = "start"
    /\ args \in Arguments
    /\ simulations = NoFrame

\* a caller about to analyse a frame of its own against a positive start price
InitFrame ==
    /\ pc = "frame"
    /\ \E s \in 1..MaxStartPrice, f \in Frames :
         /\ args = [start_price |-> s, drift |-> 0, volatility |-> 0,
                    forecast_period |-> Len(f),
                    num_simulations |-> IF f = <<>> THEN 0 ELSE Len(f[1])]
         /\ simulations = f

Init ==
    /\ InitMain \/ InitFrame
    /\ z = <<>>
    /\ analysis = NoAnalysis
    /\ error = "none"

Next == run_monte_carlo_simulation \/ analyze_simulation_results

Spec == Init /\ [][Next]_vars

(* ----------------------------- properties ----------------------------- *)

\* the preconditions the simulator's contract states
ValidParameters ==
    /\ args.start_price > 0
    /\ args.forecast_period >= 1
    /\ args.num_simulations >= 1
    /\ args.volatility >= 0

\* the simulator has returned or raised
SimulatorDone == pc \in {"simulated", "simulator_raised"}

\* C1: for valid parameters and any draws, the matrix the simulator returns has
\* exactly forecast_period rows of num_simulations columns each, and its row 0
\* equals start_price in every column.
C1_ShapeAndFirstRow ==
    (pc = "simulated" /\ ValidParameters) =>
        /\ Len(simulations) = args.forecast_period
        /\ \A t \in 1..Len(simulations) : Len(simulations[t]) = args.num_simulations
        /\ \A p \in 1..args.num_simulations :
              simulations[1][p] = Rat(args.start_price)

C1_Witness ==
    /\ pc = "simulated" /\ ValidParameters
    /\ args.forecast_period >= 3 /\ args.num_simulations >= 2
    /\ args.volatility > 0
    /\ simulations[3][1] # simulations[3][2]

RECURSIVE RatPow(_, _)
RatPow(x, k) == IF k = 0 THEN Rat(1) ELSE Mul(x, RatPow(x, k - 1))

\* C2: with volatility = 0, whatever the draws, every path is the same and the
\* price at step t (row t + 1) is start_price * exp(drift)^t.
C2_ZeroVolatilityClosedForm ==
    (pc = "simulated" /\ args.volatility = 0) =>
        \A t \in 0..(args.forecast_period - 1) :
            \A p \in 1..args.num_simulations :
                simulations[t + 1][p] =
                    Mul(Rat(args.start_price), RatPow(Exp(args.drift), t))

C2_Witness ==
    /\ pc = "simulated" /\ args.volatility = 0 /\ args.drift # 0
    /\ args.start_price > 0
    /\ args.forecast_period >= 3 /\ args.num_simulations >= 2
    /\ z[2][1] # z[2][2] /\ z[3][1] # z[2][1]
    /\ simulations[3][1] # simulations[1][1]

\* C4: a simulator call with a violated precondition fails with
\* InvalidParameterError and returns no matrix.
C4_InvalidParametersRejected ==
    (SimulatorDone /\ ~ValidParameters) =>
        /\ error = "InvalidParameterError"
        /\ simulations = NoFrame

\* the analyzer has returned or raised
AnalyzerDone == pc \in {"analyzed", "analyzer_raised"}

\* the frame handed to the analyzer holds no final price
EmptyOutcomeSet == Len(simulations) = 0 \/ Len(final_prices_of(simulations)) = 0

\* C5: the analyzer called with an empty outcome set fails with
\* InsufficientDataError and returns no AnalysisResult.
C5_EmptyOutcomeRejected ==
    (AnalyzerDone /\ EmptyOutcomeSet) =>
        /\ error = "InsufficientDataError"
        /\ analysis = NoAnalysis

\* the returns at or below a threshold, as positions of the returns vector
TailSet(var) ==
    {i \in 1..Len(analysis.returns) : Leq(analysis.returns[i], var)}

\* C6: when the tail set of a confidence level is empty, the analyzer does not
\* return NaN as that level's CVaR.
C6_EmptyTailHandled ==
    pc = "analyzed" =>
        /\ TailSet(analysis.risk_metrics.VaR_95) = {} =>
              ~IsNaN(analysis.risk_metrics.CVaR_95)
        /\ TailSet(analysis.risk_metrics.VaR_99) = {} =>
              ~IsNaN(analysis.risk_metrics.CVaR_99)

\* the analyzer returned for a non-empty vector and a positive start price
AnalyzedValid ==
    /\ pc = "analyzed"
    /\ Len(analysis.final_prices) >= 1
    /\ analysis.start_price > 0

\* the fraction of the final prices at or above the start price
FractionAtOrAbove ==
    LET n == Len(analysis.final_prices)
        k == Cardinality({i \in 1..n :
                 Leq(Rat(analysis.start_price), analysis.final_prices[i])})
    IN  Norm(k, n)

\* C7: for a non-empty vector and start_price > 0, prob_loss plus the fraction
\* of paths with final_price >= start_price is 1.
C7_ProbLossComplement ==
    AnalyzedValid =>
        Add(analysis.risk_metrics.prob_loss, FractionAtOrAbove) = Rat(1)

C7_Witness ==
    /\ AnalyzedValid
    /\ \E i, j, k \in 1..Len(analysis.final_prices) :
          /\ Lt(analysis.final_prices[i], Rat(analysis.start_price))
          /\ analysis.final_prices[j] = Rat(analysis.start_price)
          /\ Lt(Rat(analysis.start_price), analysis.final_prices[k])

\* C8: for a non-empty vector the price predictions are ordered, 5th <= 25th <=
\* median <= 75th <= 95th percentile, so the 95th minus the 5th is >= 0.
C8_PercentilesOrdered ==
    (pc = "analyzed" /\ Len(analysis.final_prices) >= 1) =>
        LET pp == analysis.price_predictions
        IN  /\ Leq(pp.percentile_5th, pp.percentile_25th)
            /\ Leq(pp.percentile_25th, pp.median_predicted_price)
            /\ Leq(pp.median_predicted_price, pp.percentile_75th)
            /\ Leq(pp.percentile_75th, pp.percentile_95th)
            /\ Leq(Rat(0), Sub(pp.percentile_95th, pp.percentile_5th))

C8_Witness ==
    /\ pc = "analyzed" /\ Len(analysis.final_prices) >= 4
    /\ Lt(analysis.final_prices[2], analysis.final_prices[1])
    /\ LET pp == analysis.price_predictions
       IN  /\ Lt(pp.percentile_5th, pp.percentile_25th)
           /\ Lt(pp.percentile_25th, pp.median_predicted_price)
           /\ Lt(pp.median_predicted_price, pp.percentile_75th)
           /\ Lt(pp.percentile_75th, pp.percentile_95th)

\* C9 as stated: for a non-empty vector and start_price > 0,
\* VaR_99 <= VaR_95 <= 0.
C9_VaRNonPositive ==
    AnalyzedValid =>
        /\ Leq(analysis.risk_metrics.VaR_99, analysis.risk_metrics.VaR_95)
        /\ Leq(analysis.risk_metrics.VaR_95, Rat(0))

\* C9 as amended: for a non-empty vector and start_price > 0, VaR_99 <= VaR_95,
\* VaR_95 is the 5th percentile of the prices taken as a return, and VaR_95 is
\* signed: it is >= 0 whenever every final price is >= start_price.
C9_VaROrderedAndSigned ==
    AnalyzedValid =>
        /\ Leq(analysis.risk_metrics.VaR_99, analysis.risk_metrics.VaR_95)
        /\ analysis.risk_metrics.VaR_95 =
              Sub(Div(analysis.price_predictions.percentile_5th,
                      Rat(analysis.start_price)), Rat(1))
        /\ (\A i \in 1..Len(analysis.final_prices) :
                Leq(Rat(analysis.start_price), analysis.final_prices[i]))
              => Leq(Rat(0), analysis.risk_metrics.VaR_95)

C9_Witness ==
    /\ AnalyzedValid
    /\ Lt(analysis.risk_metrics.VaR_99, analysis.risk_metrics.VaR_95)
    /\ Lt(Rat(0), analysis.risk_metrics.VaR_95)
    /\ Len(analysis.final_prices) >= 3

\* C10: whenever the tail set of a level is non-empty, that level's CVaR is
\* <= its VaR.
C10_CVaRBelowVaR ==
    pc = "analyzed" =>
        /\ TailSet(analysis.risk_metrics.VaR_95) # {} =>
              Leq(analysis.risk_metrics.CVaR_95, analysis.risk_metrics.VaR_95)
        /\ TailSet(analysis.risk_metrics.VaR_99) # {} =>
              Leq(analysis.risk_metrics.CVaR_99, analysis.risk_metrics.VaR_99)

C10_Witness ==
    /\ pc = "analyzed"
    /\ \E i, j \in TailSet(analysis.risk_metrics.VaR_95) :
          analysis.returns[i] # analysis.returns[j]
    /\ Cardinality(TailSet(analysis.risk_metrics.VaR_95)) < Len(analysis.returns)
    /\ Lt(analysis.risk_metrics.CVaR_95, analysis.risk_metrics.VaR_95)
    /\ Lt(analysis.risk_metrics.CVaR_99, analysis.risk_metrics.VaR_99)

\* C11: with drift = 0 and volatility = 0 every cell of the returned matrix is
\* start_price; and the analysis of a non-empty cross-section whose every final
\* price is start_price (> 0) has prob_loss = 0, expected_return = 0,
\* VaR_95 = VaR_99 = 0 and mean_predicted_price = start_price.
C11_FlatEndToEnd ==
    /\ (pc = "simulated" /\ args.drift = 0 /\ args.volatility = 0) =>
          \A t \in 1..Len(simulations) :
              \A p \in 1..Len(simulations[t]) :
                  simulations[t][p] = Rat(args.start_price)
    /\ (/\ AnalyzedValid
        /\ \A i \in 1..Len(analysis.final_prices) :
              analysis.final_prices[i] = Rat(analysis.start_price)) =>
          /\ analysis.risk_metrics.prob_loss = Rat(0)
          /\ analysis.statistical_summary.expected_return = Rat(0)
          /\ analysis.risk_metrics.VaR_95 = Rat(0)
          /\ analysis.risk_metrics.VaR_99 = Rat(0)
          /\ analysis.price_predictions.mean_predicted_price =
                Rat(analysis.start_price)

C11_Witness ==
    /\ pc = "analyzed" /\ z # <<>>
    /\ args.start_price = 2 /\ args.drift = 0 /\ args.volatility = 0
    /\ args.forecast_period = 3 /\ args.num_simulations = 2
    /\ simulations = <<<<Rat(2), Rat(2)>>, <<Rat(2), Rat(2)>>, <<Rat(2), Rat(2)>>>>
    /\ analysis.final_prices = <<Rat(2), Rat(2)>>
    /\ analysis.risk_metrics.prob_loss = Rat(0)
    /\ analysis.price_predictions.mean_predicted_price = Rat(2)

\* drift + volatility * z summed over the draws of column p in rows 2..t, the
\* code's steps 1..t-1
RECURSIVE LogGrowth(_, _)
LogGrowth(p, t) ==
    IF t <= 1 THEN 0
    ELSE LogGrowth(p, t - 1) + args.drift + args.volatility * z[t][p]

\* C12: for every step t with 1 <= t <= forecast_period - 1 (row t + 1) and every
\* path p, price[t][p] = price[t-1][p] * exp(drift + volatility * z[t][p]); a
\* cell is start_price grown by the draws of its own column from step 1 on only;
\* and replacing the draws of row 0 by any others leaves the whole matrix as it
\* is.
C12_StepUsesOwnDraw ==
    pc = "simulated" =>
        /\ \A t \in 2..Len(simulations) :
              \A p \in 1..Len(simulations[t]) :
                  /\ simulations[t][p] =
                        Mul(simulations[t - 1][p],
                            Exp(args.drift + args.volatility * z[t][p]))
                  /\ simulations[t][p] =
                        Mul(Rat(args.start_price), Exp(LogGrowth(p, t)))
        /\ \A row0 \in [1..args.num_simulations -> Draws] :
              price_paths(args.start_price,
                          daily_returns(args.drift, args.volatility,
                                        [z EXCEPT ![1] = row0]),
                          args.forecast_period - 1) = simulations

C12_Witness ==
    /\ pc = "simulated" /\ ValidParameters /\ args.volatility > 0
    /\ args.forecast_period >= 3 /\ args.num_simulations >= 2
    /\ z[1][1] # z[1][2] /\ z[1][1] # z[2][1]
    /\ z[2][1] # z[2][2] /\ z[3][1] = z[3][2]
    /\ simulations[2][1] # simulations[2][2]
    /\ simulations[3][1] # simulations[3][2]

\* every final price of the analysed vector is a finite number
FinitePrices ==
    \A i \in 1..Len(analysis.final_prices) : analysis.final_prices[i][2] > 0

\* C13: for a non-empty vector of finite final prices and start_price > 0, some
\* return is at or below VaR_95 and some at or below VaR_99 (the smallest
\* return is), so neither tail set is empty and CVaR_95 and CVaR_99 are
\* numbers, not NaN; this includes a single path.
C13_TailNeverEmpty ==
    (AnalyzedValid /\ FinitePrices) =>
        /\ TailSet(analysis.risk_metrics.VaR_95) # {}
        /\ TailSet(analysis.risk_metrics.VaR_99) # {}
        /\ \E i \in 1..Len(analysis.returns) :
              /\ \A j \in 1..Len(analysis.returns) :
                    Leq(analysis.returns[i], analysis.returns[j])
              /\ Leq(analysis.returns[i], analysis.risk_metrics.VaR_99)
              /\ Leq(analysis.returns[i], analysis.risk_metrics.VaR_95)
        /\ ~IsNaN(analysis.risk_metrics.CVaR_95)
        /\ ~IsNaN(analysis.risk_metrics.CVaR_99)

C13_Witness ==
    /\ AnalyzedValid /\ FinitePrices
    /\ z # <<>> /\ args.num_simulations = 1 /\ args.forecast_period >= 2
    /\ Len(analysis.final_prices) = 1
    /\ analysis.final_prices[1] # Rat(analysis.start_price)
    /\ analysis.risk_metrics.CVaR_95 = analysis.risk_metrics.VaR_95
    /\ analysis.risk_metrics.CVaR_99 = analysis.returns[1]

====
